---- MODULE Spec2Model ----
(***************************************************************************)
(* Model of the URL shortener backend: short-code allocation               *)
(* (routes/links), the redirect handler with its fire-and-forget hit       *)
(* counter and click logging (routes/redirect), and the click analysis     *)
(* (services/analysisService).                                             *)
(*                                                                         *)
(* Strings are sequences of one-character strings, so that trim,           *)
(* toLowerCase, toUpperCase, split and the regular-expression tests are    *)
(* computed character by character.  An absent value (undefined / null /   *)
(* missing header) is the one-element sequence None.                       *)
(***************************************************************************)
EXTENDS Integers, Sequences, FiniteSets, TLC

VARIABLES
    links,        \* Firestore collection "links": doc id (index) -> document
    clickEvents,  \* Firestore collection "clickEvents", in commit order
    req,          \* redirect requests (GET /:code), one record per request
    sum,          \* analysis requests (generateUrlAnalysis), one record per call
    cr            \* link-creation requests (POST /links), one record per request

vars == <<links, clickEvents, req, sum, cr>>

(***************************************************************************)
(* Bounds of the model.                                                    *)
(***************************************************************************)
MaxLinks == 2        \* links in the store when the redirect service starts
MaxLegacyHits == 2   \* largest hitCount a pre-existing link starts with
MaxRequests == 2     \* concurrent redirect requests
MaxCreates == 2      \* concurrent link-creation requests
NChars == 1          \* how many characters of the generator alphabet are drawn

(***************************************************************************)
(* Strings.                                                                *)
(***************************************************************************)
None == <<"<undefined>">>

LowerLetters ==
    <<"a","b","c","d","e","f","g","h","i","j","k","l","m",
      "n","o","p","q","r","s","t","u","v","w","x","y","z">>

UpperLetters ==
    <<"A","B","C","D","E","F","G","H","I","J","K","L","M",
      "N","O","P","Q","R","S","T","U","V","W","X","Y","Z">>

Digits == <<"0","1","2","3","4","5","6","7","8","9">>

Range(s) == {s[i] : i \in 1..Len(s)}

IndexIn(c, s) == CHOOSE i \in 1..Len(s) : s[i] = c

ToLowerChar(c) ==
    IF c \in Range(UpperLetters) THEN LowerLetters[IndexIn(c, UpperLetters)] ELSE c

ToUpperChar(c) ==
    IF c \in Range(LowerLetters) THEN UpperLetters[IndexIn(c, LowerLetters)] ELSE c

\* String.prototype.toLowerCase
ToLowerCase(s) == [i \in 1..Len(s) |-> ToLowerChar(s[i])]

\* String.prototype.toUpperCase
ToUpperCase(s) == [i \in 1..Len(s) |-> ToUpperChar(s[i])]

IsSpace(c) == c \in {" ", "\t"}

RECURSIVE TrimStart(_)
TrimStart(s) ==
    IF s # <<>> /\ IsSpace(Head(s)) THEN TrimStart(Tail(s)) ELSE s

RECURSIVE TrimEnd(_)
TrimEnd(s) ==
    IF s # <<>> /\ IsSpace(s[Len(s)]) THEN TrimEnd(SubSeq(s, 1, Len(s) - 1)) ELSE s

\* String.prototype.trim
Trim(s) == TrimEnd(TrimStart(s))

\* RegExp.test for a literal pattern: sub occurs somewhere in s
Contains(s, sub) ==
    \E i \in 1..(Len(s) - Len(sub) + 1) : SubSeq(s, i, i + Len(sub) - 1) = sub

\* String.prototype.split for a one-character separator
RECURSIVE SplitAcc(_, _, _)
SplitAcc(s, sep, cur) ==
    IF s = <<>> THEN <<cur>>
    ELSE IF Head(s) = sep THEN <<cur>> \o SplitAcc(Tail(s), sep, <<>>)
    ELSE SplitAcc(Tail(s), sep, Append(cur, Head(s)))

Split(s, sep) == SplitAcc(s, sep, <<>>)

Min(S) == CHOOSE x \in S : \A y \in S : x <= y

(***************************************************************************)
(* The store.  A link document is                                          *)
(*   [shortCode, longUrl, alias, uid, isActive, hitCount];                 *)
(* its index in links is its document id.                                  *)
(***************************************************************************)
DestinationUrls ==
    <<"https://one.example/", "https://two.example/",
      "https://three.example/", "https://four.example/">>

LinkIds == 1..Len(links)

\* linksCollection.where("shortCode", "==", code).limit(1).get():
\* the id of docs[0] (Firestore orders by document id), 0 when snapshot.empty
FindByShortCode(code) ==
    LET m == {i \in LinkIds : links[i].shortCode = code}
    IN  IF m = {} THEN 0 ELSE Min(m)

(***************************************************************************)
(* Responses.                                                              *)
(***************************************************************************)
NoResp == [status |-> 0, location |-> "", body |-> ""]

Redirect302(url) == [status |-> 302, location |-> url, body |-> ""]

NotFoundHtml == [status |-> 404, location |-> "", body |-> "not-found.html"]

NotFoundJson == [status |-> 404, location |-> "", body |-> "{error: URL not found}"]

Error500 == [status |-> 500, location |-> "", body |-> "{error: Failed to redirect}"]

\* serveNotFoundPage: the static page when readFile succeeds, else the JSON body
ServeNotFoundPage(fileRead) == IF fileRead THEN NotFoundHtml ELSE NotFoundJson

(***************************************************************************)
(* Click classification.                                                   *)
(***************************************************************************)
Desktop == <<"d","e","s","k","t","o","p">>
Mobile == <<"m","o","b","i","l","e">>
Tablet == <<"t","a","b","l","e","t">>
Unknown == <<"U","N","K","N","O","W","N">>

\* variant of detectDeviceType: the mobile pattern is tested before the tablet one
detectDeviceType_MobileFirst(userAgent) ==
    IF userAgent = None \/ userAgent = <<>> THEN Desktop
    ELSE LET ua == ToLowerCase(userAgent)
         IN  IF \/ Contains(ua, <<"m","o","b","i">>)
                \/ Contains(ua, <<"a","n","d","r","o","i","d">>)
                \/ Contains(ua, <<"i","p","h","o","n","e">>)
                 THEN Mobile
             ELSE IF Contains(ua, <<"t","a","b","l","e","t">>) \/ Contains(ua, <<"i","p","a","d">>)
                 THEN Tablet
             ELSE Desktop

detectDeviceType(userAgent) ==
    IF userAgent = None \/ userAgent = <<>> THEN Desktop
    ELSE LET ua == ToLowerCase(userAgent)
         IN  IF Contains(ua, <<"t","a","b","l","e","t">>) \/ Contains(ua, <<"i","p","a","d">>)
                 THEN Tablet
             ELSE IF \/ Contains(ua, <<"m","o","b","i">>)
                     \/ Contains(ua, <<"a","n","d","r","o","i","d">>)
                     \/ Contains(ua, <<"i","p","h","o","n","e">>)
                 THEN Mobile
             ELSE Desktop

\* variant of detectCountry: the first part of the entry, whatever follows it
detectCountry_FirstPart(acceptLanguage) ==
    IF acceptLanguage = None \/ acceptLanguage = <<>> THEN Unknown
    ELSE LET first == Split(acceptLanguage, ",")[1]
             parts == Split(first, "-")
         IN  ToUpperCase(parts[1])

detectCountry(acceptLanguage) ==
    IF acceptLanguage = None \/ acceptLanguage = <<>> THEN Unknown
    ELSE LET first == Split(acceptLanguage, ",")[1]
             parts == Split(first, "-")
         IN  IF Len(parts) = 2 THEN ToUpperCase(parts[2]) ELSE ToUpperCase(parts[1])

Direct == <<"d","i","r","e","c","t">>

\* req.query.src: absent, one string, a repeated parameter (array) or a
\* nested one (object)
SrcAbsent == [kind |-> "absent", val |-> <<>>]
SrcString(s) == [kind |-> "string", val |-> s]
SrcArray == [kind |-> "array", val |-> <<>>]
SrcObject == [kind |-> "object", val |-> <<>>]

\* (req.query.src as string | undefined)?.trim() throws a TypeError when the
\* value is an array or an object: they have no trim method
SrcTrimThrows(src) == src.kind \in {"array", "object"}

SourceOf(src) ==
    LET srcParam == IF src.kind = "string" THEN Trim(src.val) ELSE None
    IN  IF srcParam # None /\ Len(srcParam) > 0 THEN srcParam ELSE Direct

\* request metadata: the headers and the src query parameter
MetaInputs ==
    { [userAgent |-> None, acceptLanguage |-> None, referer |-> None, src |-> SrcAbsent],
      [userAgent |-> <<"i","P","a","d">>, acceptLanguage |-> <<"d","e","-","D","E",",","d","e">>,
       referer |-> <<"r">>, src |-> SrcString(<<"q","r">>)],
      [userAgent |-> None, acceptLanguage |-> None, referer |-> None, src |-> SrcString(<<" ">>)],
      [userAgent |-> None, acceptLanguage |-> None, referer |-> None, src |-> SrcString(<<>>)],
      [userAgent |-> None, acceptLanguage |-> None, referer |-> None, src |-> SrcArray],
      [userAgent |-> None, acceptLanguage |-> None, referer |-> None, src |-> SrcObject] }

NoEvent ==
    [linkId |-> 0, shortCode |-> None, longUrl |-> "", deviceType |-> None, country |-> None,
     source |-> None, referrer |-> None, userAgent |-> None, timestamp |-> 0, by |-> 0]

(***************************************************************************)
(* GET /:code                                                              *)
(***************************************************************************)
ReqIds == 1..MaxRequests

\* req.params.code of the requests the model sends
RawCodes ==
    { <<"a","b">>, <<"A","b">>, <<" ","A","B"," ">>, <<" ">> }

\* variant of NormalizedCode: the code is trimmed but not lowercased
NormalizedCode_NotLowercased(raw) == Trim(raw)

OriginalCode(raw) == Trim(raw)

NormalizedCode(raw) == ToLowerCase(OriginalCode(raw))

IdleReq ==
    [pc |-> "idle", rawCode |-> None, lookups |-> <<>>, docId |-> 0, branch |-> "",
     error |-> "", fileRead |-> "", resp |-> NoResp, hit |-> "none", click |-> "none",
     acceptLanguage |-> None, event |-> NoEvent, trace |-> <<>>]

\* variant of SuccessSteps: the hit update is started before the response
SuccessSteps_UpdateFirst == <<"hit-update-started", "response-sent", "click-log-started">>

\* the order of the handler's last statements once the link is found active
SuccessSteps == <<"response-sent", "hit-update-started", "click-log-started">>

\* a rejected promise nobody awaits or catches: void linksCollection.doc().update()
HitUpdateFailure == "unhandled-rejection"

\* logClickEvent wraps its store call in try/catch
ClickLogFailure == "caught"

\* the request arrives (requests are numbered in their order of arrival);
\* an empty code is answered by serveNotFoundPage
StartRedirect(r, raw) ==
    /\ req[r].pc = "idle"
    /\ \A q \in ReqIds : q < r => req[q].pc # "idle"
    /\ LET originalCode == OriginalCode(raw)
           code == NormalizedCode(raw)
       IN  req' = [req EXCEPT ![r] =
                [@ EXCEPT !.rawCode = raw,
                          !.pc = IF code = <<>> \/ originalCode = <<>>
                                 THEN "notFoundPage" ELSE "lookup1",
                          !.branch = IF code = <<>> \/ originalCode = <<>>
                                     THEN "missing-code" ELSE ""]]
    /\ UNCHANGED <<links, clickEvents, sum, cr>>

\* snapshot.empty: await serveNotFoundPage
NotFoundOutcome(rec) == [rec EXCEPT !.pc = "notFoundPage", !.branch = "not-found"]

\* variant of InactiveOutcome: the hit of an inactive link is counted
InactiveOutcome_Counts(rec, docId) ==
    [rec EXCEPT !.docId = docId, !.pc = "notFoundPage", !.branch = "inactive-link",
                !.hit = "pending"]

\* variant of InactiveOutcome: an inactive link is answered 410 Gone
InactiveOutcome_Gone(rec, docId) ==
    [rec EXCEPT !.docId = docId, !.pc = "done", !.branch = "inactive-link",
                !.resp = [status |-> 410, location |-> "", body |-> "{error: Link disabled}"]]

\* !data.isActive: await serveNotFoundPage
InactiveOutcome(rec, docId) ==
    [rec EXCEPT !.docId = docId, !.pc = "notFoundPage", !.branch = "inactive-link"]

\* an exception inside the try block: the catch block answers 500
CatchOutcome(rec, error) ==
    [rec EXCEPT !.pc = "done", !.branch = "error", !.error = error, !.resp = Error500]

\* the click event handed to logClickEvent
ClickEventOf(r, docId, data, meta) ==
    [linkId |-> docId,
     shortCode |-> data.shortCode,
     longUrl |-> data.longUrl,
     deviceType |-> detectDeviceType(meta.userAgent),
     country |-> detectCountry(meta.acceptLanguage),
     source |-> SourceOf(meta.src),
     referrer |-> meta.referer,
     userAgent |-> meta.userAgent,
     timestamp |-> 0,
     by |-> r]

\* res.redirect, then the two calls nobody awaits
SuccessOutcome(rec, r, docId, data, meta) ==
    [rec EXCEPT !.docId = docId, !.pc = "done", !.branch = "success",
                !.resp = Redirect302(data.longUrl),
                !.hit = "pending",
                !.click = "pending",
                !.acceptLanguage = meta.acceptLanguage,
                !.event = ClickEventOf(r, docId, data, meta),
                !.trace = SuccessSteps]

\* variant of Decide: isActive is not looked at
Decide_IgnoresActive(r, docId, queried, meta) ==
    LET rec == [req[r] EXCEPT !.lookups = Append(@, queried)] IN
    IF docId = 0 THEN NotFoundOutcome(rec)
    ELSE IF SrcTrimThrows(meta.src) THEN CatchOutcome([rec EXCEPT !.docId = docId], "TypeError")
    ELSE SuccessOutcome(rec, r, docId, links[docId], meta)

\* what the handler does with the snapshot of its last lookup (docId: 0 when
\* empty), up to the next await
Decide(r, docId, queried, meta) ==
    LET rec == [req[r] EXCEPT !.lookups = Append(@, queried)] IN
    IF docId = 0 THEN NotFoundOutcome(rec)
    ELSE IF ~links[docId].isActive THEN InactiveOutcome(rec, docId)
    ELSE IF SrcTrimThrows(meta.src) THEN CatchOutcome([rec EXCEPT !.docId = docId], "TypeError")
    ELSE SuccessOutcome(rec, r, docId, links[docId], meta)

\* variant of Lookup1: the code as typed is queried whenever it differs from
\* the lowercased code
Lookup1_RetriesAlways(r, meta) ==
    /\ req[r].pc = "lookup1"
    /\ LET originalCode == OriginalCode(req[r].rawCode)
           code == NormalizedCode(req[r].rawCode)
           docId == FindByShortCode(code)
       IN  req' = [req EXCEPT ![r] =
                IF originalCode # code
                THEN [@ EXCEPT !.lookups = Append(@, code), !.pc = "lookup2"]
                ELSE Decide(r, docId, code, meta)]
    /\ UNCHANGED <<links, clickEvents, sum, cr>>

\* the first query (lowercased code) resolves
Lookup1(r, meta) ==
    /\ req[r].pc = "lookup1"
    /\ LET originalCode == OriginalCode(req[r].rawCode)
           code == NormalizedCode(req[r].rawCode)
           docId == FindByShortCode(code)
       IN  req' = [req EXCEPT ![r] =
                IF docId = 0 /\ originalCode # code
                THEN [@ EXCEPT !.lookups = Append(@, code), !.pc = "lookup2"]
                ELSE Decide(r, docId, code, meta)]
    /\ UNCHANGED <<links, clickEvents, sum, cr>>

\* the second query (code as typed) resolves
Lookup2(r, meta) ==
    /\ req[r].pc = "lookup2"
    /\ LET originalCode == OriginalCode(req[r].rawCode)
       IN  req' = [req EXCEPT ![r] =
                Decide(r, FindByShortCode(originalCode), originalCode, meta)]
    /\ UNCHANGED <<links, clickEvents, sum, cr>>

\* variant of LookupFails: a rejected query is treated like an empty snapshot
LookupFails_AsNotFound(r) ==
    /\ req[r].pc \in {"lookup1", "lookup2"}
    /\ req' = [req EXCEPT ![r] =
            [@ EXCEPT !.pc = "notFoundPage", !.branch = "not-found", !.error = "StoreError",
                      !.lookups = Append(@, IF req[r].pc = "lookup1"
                                            THEN NormalizedCode(req[r].rawCode)
                                            ELSE OriginalCode(req[r].rawCode))]]
    /\ UNCHANGED <<links, clickEvents, sum, cr>>

\* a query rejects
LookupFails(r) ==
    /\ req[r].pc \in {"lookup1", "lookup2"}
    /\ req' = [req EXCEPT ![r] =
            CatchOutcome([@ EXCEPT !.lookups = Append(@, IF req[r].pc = "lookup1"
                                                         THEN NormalizedCode(req[r].rawCode)
                                                         ELSE OriginalCode(req[r].rawCode))],
                         "StoreError")]
    /\ UNCHANGED <<links, clickEvents, sum, cr>>

\* serveNotFoundPage finishes
ServeNotFound(r, fileRead) ==
    /\ req[r].pc = "notFoundPage"
    /\ req' = [req EXCEPT ![r] =
            [@ EXCEPT !.pc = "done",
                      !.fileRead = IF fileRead THEN "read" ELSE "failed",
                      !.resp = ServeNotFoundPage(fileRead)]]
    /\ UNCHANGED <<links, clickEvents, sum, cr>>

\* variant of HitUpdateDone: the update is acknowledged without incrementing
HitUpdateDone_Lost(r) ==
    /\ req[r].hit = "pending"
    /\ req' = [req EXCEPT ![r] = [@ EXCEPT !.hit = "done"]]
    /\ UNCHANGED <<links, clickEvents, sum, cr>>

\* variant of HitUpdateDone: the increment is applied twice
HitUpdateDone_Twice(r) ==
    /\ req[r].hit = "pending"
    /\ links' = [links EXCEPT ![req[r].docId].hitCount = @ + 2]
    /\ req' = [req EXCEPT ![r] = [@ EXCEPT !.hit = "done"]]
    /\ UNCHANGED <<clickEvents, sum, cr>>

\* variant of HitUpdateDone: the count of the snapshot read at lookup, plus
\* one, is written back (every link starts at 0) instead of an atomic increment
HitUpdateDone_StaleWrite(r) ==
    /\ req[r].hit = "pending"
    /\ links' = [links EXCEPT ![req[r].docId].hitCount = 1]
    /\ req' = [req EXCEPT ![r] = [@ EXCEPT !.hit = "done"]]
    /\ UNCHANGED <<clickEvents, sum, cr>>

\* the store applies hitCount: FieldValue.increment(1)
HitUpdateDone(r) ==
    /\ req[r].hit = "pending"
    /\ links' = [links EXCEPT ![req[r].docId].hitCount = @ + 1]
    /\ req' = [req EXCEPT ![r] =
            [@ EXCEPT !.hit = "done"]]
    /\ UNCHANGED <<clickEvents, sum, cr>>

\* the store rejects the update
HitUpdateFails(r) ==
    /\ req[r].hit = "pending"
    /\ req' = [req EXCEPT ![r] =
            [@ EXCEPT !.hit = HitUpdateFailure]]
    /\ UNCHANGED <<links, clickEvents, sum, cr>>

\* clickEventsCollection.add commits, with the server's timestamp
ClickLogDone(r) ==
    /\ req[r].click = "pending"
    /\ clickEvents' = Append(clickEvents,
            [req[r].event EXCEPT !.timestamp = Len(clickEvents) + 1])
    /\ req' = [req EXCEPT ![r] =
            [@ EXCEPT !.click = "done"]]
    /\ UNCHANGED <<links, sum, cr>>

\* clickEventsCollection.add rejects
ClickLogFails(r) ==
    /\ req[r].click = "pending"
    /\ req' = [req EXCEPT ![r] =
            [@ EXCEPT !.click = ClickLogFailure]]
    /\ UNCHANGED <<links, clickEvents, sum, cr>>

(***************************************************************************)
(* PATCH /links/:id                                                        *)
(***************************************************************************)
\* the PATCH requests the model sends, with isActive as sent ("invalid":
\* something toggleSchema rejects): the owner's, for every link and for an id
\* no link has, and one each of the rejected kinds
PatchInputs ==
    { [id |-> i, uid |-> "u1", body |-> b, storeOk |-> TRUE]
        : i \in 1..(MaxLinks + 1), b \in {"true", "false"} }
    \cup { [id |-> 1, uid |-> "u2", body |-> "false", storeOk |-> TRUE],
           [id |-> 1, uid |-> "u1", body |-> "invalid", storeOk |-> TRUE],
           [id |-> 1, uid |-> "u1", body |-> "false", storeOk |-> FALSE] }

\* the status the handler answers with; storeOk: docRef.get and
\* docRef.update do not reject
PatchStatus(id, uid, body, storeOk) ==
    IF body = "invalid" THEN 400
    ELSE IF ~storeOk THEN 500
    ELSE IF id \notin LinkIds THEN 404
    ELSE IF links[id].uid # uid THEN 403
    ELSE 200

\* variant of Patch: the write also resets hitCount
Patch_ResetsHits(id, uid, body, storeOk) ==
    /\ links' = IF PatchStatus(id, uid, body, storeOk) = 200
                THEN [links EXCEPT ![id].isActive = (body = "true"), ![id].hitCount = 0]
                ELSE links
    /\ UNCHANGED <<clickEvents, req, sum, cr>>

\* the whole request; the document is written only on the path that answers 200
Patch(id, uid, body, storeOk) ==
    /\ links' = IF PatchStatus(id, uid, body, storeOk) = 200
                THEN [links EXCEPT ![id].isActive = (body = "true")]
                ELSE links
    /\ UNCHANGED <<clickEvents, req, sum, cr>>

(***************************************************************************)
(* generateUrlAnalysis, called by POST /:shortId/summary                   *)
(***************************************************************************)
MaxSummaries == 1    \* analysis requests
MaxEvents == 3       \* click events stored when the analysis service starts
MaxTime == 2         \* latest timestamp of a stored click event

SumIds == 1..MaxSummaries

\* from / to of the request body: 0 when not supplied, else an instant on the
\* scale of the event timestamps
Windows == { <<0, 0>>, <<1, 1>>, <<2, 0>> }

\* clickEventsCollection.where("linkId", "==", id).orderBy("timestamp", "asc")
EventsOfLink(id) == SelectSeq(clickEvents, LAMBDA e : e.linkId = id)

\* variant of FilterEvents: an event on a bound is dropped
FilterEvents_Exclusive(events, from, to) ==
    IF from # 0 \/ to # 0
    THEN SelectSeq(events, LAMBDA evt :
            /\ evt.timestamp # 0
            /\ ~(from # 0 /\ evt.timestamp <= from)
            /\ ~(to # 0 /\ evt.timestamp >= to))
    ELSE events

\* step 3: the events inside [from, to]; an event without timestamp
\* (timestamp 0) is dropped whenever a bound is given
FilterEvents(events, from, to) ==
    IF from # 0 \/ to # 0
    THEN SelectSeq(events, LAMBDA evt :
            /\ evt.timestamp # 0
            /\ ~(from # 0 /\ evt.timestamp < from)
            /\ ~(to # 0 /\ evt.timestamp > to))
    ELSE events

\* variant: the number of events, without the hitCount fallback
TotalClicks_EventsOnly(events, hitCount) == Len(events)

\* events.length || linkData.hitCount || 0
TotalClicks(events, hitCount) ==
    IF Len(events) # 0 THEN Len(events)
    ELSE IF hitCount # 0 THEN hitCount
    ELSE 0

\* countBy: one {value, count} per distinct key, in the order of first occurrence
RECURSIVE CountInto(_, _)
CountInto(keys, acc) ==
    IF keys = <<>> THEN acc
    ELSE LET k == IF Head(keys) = None \/ Head(keys) = <<>> THEN Unknown ELSE Head(keys)
         IN  IF \E n \in 1..Len(acc) : acc[n].value = k
             THEN CountInto(Tail(keys),
                    [n \in 1..Len(acc) |->
                        IF acc[n].value = k THEN [acc[n] EXCEPT !.count = @ + 1] ELSE acc[n]])
             ELSE CountInto(Tail(keys), Append(acc, [value |-> k, count |-> 1]))

\* variant of countBy: the buckets in the opposite order
countBy_Reversed(arr, field) ==
    LET b == CountInto([n \in 1..Len(arr) |-> arr[n][field]], <<>>)
    IN  [i \in 1..Len(b) |-> b[Len(b) + 1 - i]]

\* countBy(arr, key), with field the name of the field that key selects
countBy(arr, field) == CountInto([n \in 1..Len(arr) |-> arr[n][field]], <<>>)

NoStats ==
    [urlId |-> 0, shortCode |-> None, longUrl |-> "", totalClicks |-> 0, period |-> "",
     firstClick |-> 0, lastClick |-> 0, countries |-> <<>>, devices |-> <<>>, sources |-> <<>>]

\* steps 3..5 on the fetched events (firstClick / lastClick: 0 for null)
StatsOf(linkId, linkData, fetched, from, to) ==
    LET events == FilterEvents(fetched, from, to)
    IN  [urlId |-> linkId,
         shortCode |-> linkData.shortCode,
         longUrl |-> linkData.longUrl,
         totalClicks |-> TotalClicks(events, linkData.hitCount),
         period |-> IF from # 0 \/ to # 0 THEN "Gefilterter Zeitraum" ELSE "Gesamter Zeitraum",
         firstClick |-> IF Len(events) > 0 THEN events[1].timestamp ELSE 0,
         lastClick |-> IF Len(events) > 0 THEN events[Len(events)].timestamp ELSE 0,
         countries |-> countBy(events, "country"),
         devices |-> countBy(events, "deviceType"),
         sources |-> countBy(events, "source")]

NoLinkData == [shortCode |-> None, longUrl |-> "", hitCount |-> 0]

\* previous: what the client's last answered call without a window reported
\* (urlId 0: no such call yet)
NoPrevious == [urlId |-> 0, totalClicks |-> 0]

IdleSum ==
    [pc |-> "idle", shortId |-> None, from |-> 0, to |-> 0, after |-> {}, linkId |-> 0,
     linkData |-> NoLinkData, fetched |-> 0, events |-> <<>>, outcome |-> "", status |-> 0,
     stats |-> NoStats, previous |-> NoPrevious]

\* the route's answer: res.json on success, next(err) otherwise, which the
\* default error handler turns into a 500
SummaryStatus(outcome) == IF outcome = "ok" THEN 200 ELSE 500

\* a request arrives (requests are numbered in their order of arrival);
\* after: the redirect requests that had got their 302 by then
StartSummary(s, shortId, from, to) ==
    /\ sum[s].pc = "idle"
    /\ \A q \in SumIds : q < s => sum[q].pc = "done"
    /\ sum' = [sum EXCEPT ![s] = [@ EXCEPT !.pc = "lookup", !.shortId = shortId,
                                           !.from = from, !.to = to,
                                           !.after = {r \in ReqIds : req[r].resp.status = 302}]]
    /\ UNCHANGED <<links, clickEvents, req, cr>>

\* the client of request s, answered, sends its next request
StartNextSummary(s, shortId, from, to) ==
    /\ sum[s].pc = "done"
    /\ sum' = [sum EXCEPT ![s] =
            [IdleSum EXCEPT !.pc = "lookup", !.shortId = shortId, !.from = from, !.to = to,
                            !.after = {r \in ReqIds : req[r].resp.status = 302},
                            !.previous = IF sum[s].outcome = "ok" /\ sum[s].from = 0 /\ sum[s].to = 0
                                         THEN [urlId |-> sum[s].stats.urlId,
                                               totalClicks |-> sum[s].stats.totalClicks]
                                         ELSE sum[s].previous]]
    /\ UNCHANGED <<links, clickEvents, req, cr>>

\* step 1: the link query resolves
SummaryLookup(s) ==
    /\ sum[s].pc = "lookup"
    /\ LET code == ToLowerCase(Trim(sum[s].shortId))
           docId == FindByShortCode(code)
       IN  sum' = [sum EXCEPT ![s] =
                IF docId = 0
                THEN [@ EXCEPT !.pc = "done", !.outcome = "NotFoundError",
                               !.status = SummaryStatus("NotFoundError")]
                ELSE [@ EXCEPT !.pc = "events", !.linkId = docId,
                               !.linkData = [shortCode |-> links[docId].shortCode,
                                             longUrl |-> links[docId].longUrl,
                                             hitCount |-> links[docId].hitCount]]]
    /\ UNCHANGED <<links, clickEvents, req, cr>>

\* step 2: the event query resolves; steps 3..6 follow without another await
SummaryEvents(s) ==
    /\ sum[s].pc = "events"
    /\ LET fetched == EventsOfLink(sum[s].linkId)
       IN  sum' = [sum EXCEPT ![s] =
                [@ EXCEPT !.pc = "done", !.outcome = "ok", !.status = SummaryStatus("ok"),
                          !.fetched = Len(fetched),
                          !.events = FilterEvents(fetched, sum[s].from, sum[s].to),
                          !.stats = StatsOf(sum[s].linkId, sum[s].linkData, fetched,
                                            sum[s].from, sum[s].to)]]
    /\ UNCHANGED <<links, clickEvents, req, cr>>

\* one of the two queries rejects
SummaryFails(s) ==
    /\ sum[s].pc \in {"lookup", "events"}
    /\ sum' = [sum EXCEPT ![s] =
            [@ EXCEPT !.pc = "done", !.outcome = "StoreError",
                      !.status = SummaryStatus("StoreError")]]
    /\ UNCHANGED <<links, clickEvents, req, cr>>

(***************************************************************************)
(* POST /links                                                             *)
(***************************************************************************)
CrIds == 1..MaxCreates

Rep(ch, n) == [i \in 1..n |-> ch]

\* generateShortCode's alphabet, "abcdefghijklmnopqrstuvwxyz0123456789"
chars == LowerLetters \o Digits

\* the characters Math.random is let draw in the model
DrawnChars == {chars[i] : i \in 1..NChars}

\* the codes generateShortCode(length) can return
generateShortCode(length) == [1..length -> DrawnChars]

maxAttempts == 10

DefaultLength == 6

\* the length used by the attempt after a collision in attempt number attempt
LengthAfterCollision(attempt, length) ==
    IF attempt >= maxAttempts - 3 THEN length + 1 ELSE length

\* variant of FallbackLength: two more than the initial length
FallbackLength_FromInitial(length) == DefaultLength + 2

\* the length of the fallback code, from the length the loop ended with
FallbackLength(length) == length + 2

AliasChars == Range(LowerLetters) \cup Range(UpperLetters) \cup Range(Digits) \cup {"_", "-"}

\* createLinkSchema.alias: trim, 3..50 characters of [a-zA-Z0-9_-]
AliasAccepted(raw) ==
    LET t == Trim(raw)
    IN  Len(t) >= 3 /\ Len(t) <= 50 /\ Range(t) \subseteq AliasChars

\* variant of ParseAlias: trimmed, the letter case kept
ParseAlias_KeepsCase(raw) == IF raw = None THEN None ELSE Trim(raw)

\* the alias the schema hands on: trimmed and lowercased (None when absent)
ParseAlias(raw) == IF raw = None THEN None ELSE ToLowerCase(Trim(raw))

\* aliases of the requests the model sends
AliasInputs ==
    { None, Rep("a", DefaultLength), Rep("A", DefaultLength),
      <<" ">> \o Rep("a", DefaultLength + 1), Rep("a", 2), <<"a", "!", "a">> }

\* longUrl of the requests the model sends; "not a url" fails z.string().url()
UrlInputs == { "https://one.example/", "not a url" }

UrlAccepted(url) == url # "not a url"

\* what the Safe Browsing call comes back with
GateAnswers == { "ok-no-matches", "ok-empty-matches", "ok-matches", "not-ok", "network-error" }

\* variant of isUrlSafe: safe only for an OK answer without match
isUrlSafe_FailsClosed(answer) == answer \in {"ok-no-matches", "ok-empty-matches"}

\* isUrlSafe: false only for an OK answer with at least one match
isUrlSafe(answer) == answer # "ok-matches"

IdleCr ==
    [pc |-> "idle", longUrl |-> "", rawAlias |-> None, alias |-> None, gate |-> "",
     attempt |-> 0, length |-> 0,
     tried |-> <<>>, fallback |-> FALSE, code |-> None, status |-> 0, message |-> ""]

Answer(rec, status, message) ==
    [rec EXCEPT !.pc = "done", !.status = status, !.message = message]

\* the request arrives (requests are numbered in their order of arrival);
\* the body is parsed, then isUrlSafe is awaited
StartCreate(c, url, rawAlias) ==
    /\ cr[c].pc = "idle"
    /\ \A q \in CrIds : q < c => cr[q].pc # "idle"
    /\ cr' = [cr EXCEPT ![c] =
            IF ~UrlAccepted(url) \/ (rawAlias # None /\ ~AliasAccepted(rawAlias))
            THEN Answer([@ EXCEPT !.rawAlias = rawAlias], 400, "Invalid URL or alias taken")
            ELSE [@ EXCEPT !.pc = "safety", !.longUrl = url, !.rawAlias = rawAlias,
                           !.alias = ParseAlias(rawAlias)]]
    /\ UNCHANGED <<links, clickEvents, req, sum>>

\* isUrlSafe resolves; a safe URL goes on to the alias query or to the
\* generator's first attempt
SafetyAnswer(c, answer) ==
    /\ cr[c].pc = "safety"
    /\ cr' = [cr EXCEPT ![c] =
            IF ~isUrlSafe(answer)
            THEN Answer([@ EXCEPT !.gate = answer], 400,
                        "This URL has been flagged as malicious/unsafe and cannot be shortened.")
            ELSE IF cr[c].alias # None
            THEN [@ EXCEPT !.gate = answer, !.pc = "aliasLookup"]
            ELSE [@ EXCEPT !.gate = answer, !.pc = "generate", !.attempt = 0,
                           !.length = DefaultLength]]
    /\ UNCHANGED <<links, clickEvents, req, sum>>

\* the alias query resolves
AliasLookup(c) ==
    /\ cr[c].pc = "aliasLookup"
    /\ cr' = [cr EXCEPT ![c] =
            IF FindByShortCode(cr[c].alias) # 0
            THEN Answer(@, 400, "Invalid URL or alias taken")
            ELSE [@ EXCEPT !.pc = "write", !.code = cr[c].alias]]
    /\ UNCHANGED <<links, clickEvents, req, sum>>

\* one turn of generateUniqueShortCode's loop: code is drawn and its query
\* resolves
GenerateAttempt(c, code) ==
    /\ cr[c].pc = "generate"
    /\ cr[c].attempt < maxAttempts
    /\ code \in generateShortCode(cr[c].length)
    /\ cr' = [cr EXCEPT ![c] =
            IF FindByShortCode(code) = 0
            THEN [@ EXCEPT !.pc = "write", !.code = code, !.tried = Append(@, Len(code))]
            ELSE [@ EXCEPT !.attempt = @ + 1,
                           !.length = LengthAfterCollision(cr[c].attempt, @),
                           !.tried = Append(@, Len(code))]]
    /\ UNCHANGED <<links, clickEvents, req, sum>>

\* every attempt collided: one more code, returned without a query
GenerateFallback(c, code) ==
    /\ cr[c].pc = "generate"
    /\ cr[c].attempt = maxAttempts
    /\ code \in generateShortCode(FallbackLength(cr[c].length))
    /\ cr' = [cr EXCEPT ![c] = [@ EXCEPT !.pc = "write", !.code = code, !.fallback = TRUE]]
    /\ UNCHANGED <<links, clickEvents, req, sum>>

\* docRef.set commits; 201
CreateWrite(c) ==
    /\ cr[c].pc = "write"
    /\ links' = Append(links,
            [shortCode |-> cr[c].code, longUrl |-> cr[c].longUrl, alias |-> cr[c].alias,
             uid |-> "u1", isActive |-> TRUE, hitCount |-> 0])
    /\ cr' = [cr EXCEPT ![c] = Answer(@, 201, "created")]
    /\ UNCHANGED <<clickEvents, req, sum>>

\* a query or the write rejects: the catch block answers 500
CreateFails(c) ==
    /\ \/ cr[c].pc \in {"aliasLookup", "write"}
       \/ cr[c].pc = "generate" /\ cr[c].attempt < maxAttempts
    /\ cr' = [cr EXCEPT ![c] = Answer(@, 500, "Failed to create link")]
    /\ UNCHANGED <<links, clickEvents, req, sum>>

(***************************************************************************)
(* The redirect service on a store that already holds links: codes stored  *)
(* lowercase by POST /links, legacy codes in their original case, and      *)
(* hit counts from before click events were logged.                        *)
(***************************************************************************)
StoredCodes == { <<"a","b">>, <<"A","b">> }

\* the stores of 1..MaxLinks active links whose hit counts are in hits
InitLinks(hits) ==
    UNION { [1..n -> [shortCode : StoredCodes, longUrl : {""}, alias : {None}, uid : {"u1"},
                      isActive : {TRUE}, hitCount : hits]]
            : n \in 1..MaxLinks }

InitStore(hits) ==
    /\ \E ls \in InitLinks(hits) :
          links = [i \in DOMAIN ls |-> [ls[i] EXCEPT !.longUrl = DestinationUrls[i]]]
    /\ clickEvents = <<>>
    /\ req = [r \in ReqIds |-> IdleReq]
    /\ sum = [s \in SumIds |-> IdleSum]
    /\ cr = [c \in CrIds |-> IdleCr]

Init == InitStore({0})

Next ==
    \/ \E r \in ReqIds, raw \in RawCodes : StartRedirect(r, raw)
    \/ \E r \in ReqIds, meta \in MetaInputs : Lookup1(r, meta)
    \/ \E r \in ReqIds, meta \in MetaInputs : Lookup2(r, meta)
    \/ \E r \in ReqIds : LookupFails(r)
    \/ \E r \in ReqIds, fileRead \in BOOLEAN : ServeNotFound(r, fileRead)
    \/ \E r \in ReqIds : HitUpdateDone(r)
    \/ \E r \in ReqIds : HitUpdateFails(r)
    \/ \E r \in ReqIds : ClickLogDone(r)
    \/ \E r \in ReqIds : ClickLogFails(r)
    \/ \E p \in PatchInputs : Patch(p.id, p.uid, p.body, p.storeOk)

Spec == Init /\ [][Next]_vars

\* the update and the append dispatched by a redirect are promises of the
\* store client: each of them settles, fulfilled or rejected
FairSpec ==
    /\ Spec
    /\ \A r \in ReqIds :
          /\ WF_vars(HitUpdateDone(r) \/ HitUpdateFails(r))
          /\ WF_vars(ClickLogDone(r) \/ ClickLogFails(r))

(***************************************************************************)
(* Analysis requests beside one redirect request, on a store whose links   *)
(* may carry hit counts from before click events were logged.              *)
(***************************************************************************)
InitAnalytics == InitStore({0, MaxLegacyHits})

NextAnalytics ==
    \/ \E raw \in RawCodes : StartRedirect(1, raw)
    \/ \E meta \in MetaInputs : Lookup1(1, meta)
    \/ \E meta \in MetaInputs : Lookup2(1, meta)
    \/ LookupFails(1)
    \/ \E fileRead \in BOOLEAN : ServeNotFound(1, fileRead)
    \/ HitUpdateDone(1)
    \/ HitUpdateFails(1)
    \/ ClickLogDone(1)
    \/ ClickLogFails(1)
    \/ \E s \in SumIds, raw \in RawCodes, w \in Windows : StartSummary(s, raw, w[1], w[2])
    \/ \E s \in SumIds : SummaryLookup(s)
    \/ \E s \in SumIds : SummaryEvents(s)
    \/ \E s \in SumIds : SummaryFails(s)

SpecAnalytics == InitAnalytics /\ [][NextAnalytics]_vars

(***************************************************************************)
(* One client calling the summary again and again, without a window,       *)
(* beside one redirect request.                                            *)
(***************************************************************************)
NextSuccessive ==
    \/ \E raw \in RawCodes : StartRedirect(1, raw)
    \/ \E meta \in MetaInputs : Lookup1(1, meta)
    \/ \E meta \in MetaInputs : Lookup2(1, meta)
    \/ LookupFails(1)
    \/ \E fileRead \in BOOLEAN : ServeNotFound(1, fileRead)
    \/ HitUpdateDone(1)
    \/ HitUpdateFails(1)
    \/ ClickLogDone(1)
    \/ ClickLogFails(1)
    \/ \E raw \in RawCodes : StartSummary(1, raw, 0, 0)
    \/ \E raw \in RawCodes : StartNextSummary(1, raw, 0, 0)
    \/ SummaryLookup(1)
    \/ SummaryEvents(1)
    \/ SummaryFails(1)

SpecSuccessive == InitAnalytics /\ [][NextSuccessive]_vars

(***************************************************************************)
(* Click classification over a range of headers: one request, one active   *)
(* link.                                                                   *)
(***************************************************************************)
\* User-Agent headers (None: the header is absent)
UserAgents ==
    { None,
      <<>>,
      <<"i", "P", "a", "d">>,
      <<"T", "A", "B", "L", "E", "T">>,
      <<"A", "n", "d", "r", "o", "i", "d">>,
      <<"M", "o", "b", "i">>,
      <<"i", "P", "h", "o", "n", "e">>,
      <<"A", "n", "d", "r", "o", "i", "d", " ", "T", "a", "b", "l", "e", "t">>,
      <<"i", "P", "a", "d", " ", "i", "P", "h", "o", "n", "e">>,
      <<"W", "i", "n", "d", "o", "w", "s">> }

\* Accept-Language headers (None: the header is absent)
AcceptLanguages ==
    { None,
      <<>>,
      <<"d", "e", "-", "D", "E", ",", "d", "e", ";", "q", "=", "0", ".", "9">>,
      <<"f", "r">>,
      <<"e", "n", "-", "u", "s">>,
      <<"e", "s", "-", "4", "1", "9">>,
      <<"*">>,
      <<"z", "h", "-", "H", "a", "n", "t", "-", "T", "W">>,
      <<"e", "n", "-", "U", "S", ";", "q", "=", "0", ".", "8">>,
      <<"-">> }

SrcInputs == { SrcAbsent, SrcString(<<"q", "r">>), SrcString(<<" ">>), SrcArray }

ClassifyInputs ==
    [userAgent : UserAgents, acceptLanguage : AcceptLanguages, referer : {None},
     src : SrcInputs]

InitClassify ==
    /\ InitStore({0})
    /\ Len(links) = 1

NextClassify ==
    \/ \E raw \in RawCodes : StartRedirect(1, raw)
    \/ \E meta \in ClassifyInputs : Lookup1(1, meta)
    \/ \E meta \in ClassifyInputs : Lookup2(1, meta)
    \/ LookupFails(1)
    \/ \E fileRead \in BOOLEAN : ServeNotFound(1, fileRead)
    \/ HitUpdateDone(1)
    \/ HitUpdateFails(1)
    \/ ClickLogDone(1)
    \/ ClickLogFails(1)

SpecClassify == InitClassify /\ [][NextClassify]_vars

(***************************************************************************)
(* Link creation, on a store that holds links created earlier under        *)
(* aliases; no two of them share a shortCode.                              *)
(***************************************************************************)
\* the lengths of the aliases stored at the start: the lengths the generator
\* draws codes of
StoredAliasLengths ==
    { DefaultLength, DefaultLength + 1, DefaultLength + 2,
      FallbackLength(DefaultLength + 3) }

RECURSIVE SortedSeq(_)
SortedSeq(S) == IF S = {} THEN <<>> ELSE <<Min(S)>> \o SortedSeq(S \ {Min(S)})

AliasLink(n) ==
    [shortCode |-> Rep("a", n), longUrl |-> "https://two.example/", alias |-> Rep("a", n),
     uid |-> "u1", isActive |-> TRUE, hitCount |-> 0]

InitCreate ==
    /\ \E S \in SUBSET StoredAliasLengths :
          links = [i \in 1..Cardinality(S) |-> AliasLink(SortedSeq(S)[i])]
    /\ clickEvents = <<>>
    /\ req = [r \in ReqIds |-> IdleReq]
    /\ sum = [s \in SumIds |-> IdleSum]
    /\ cr = [c \in CrIds |-> IdleCr]

NextCreate ==
    \/ \E c \in CrIds, url \in UrlInputs, rawAlias \in AliasInputs : StartCreate(c, url, rawAlias)
    \/ \E c \in CrIds, answer \in GateAnswers : SafetyAnswer(c, answer)
    \/ \E c \in CrIds : AliasLookup(c)
    \/ \E c \in CrIds : \E code \in generateShortCode(cr[c].length) : GenerateAttempt(c, code)
    \/ \E c \in CrIds :
          \E code \in generateShortCode(FallbackLength(cr[c].length)) : GenerateFallback(c, code)
    \/ \E c \in CrIds : CreateWrite(c)
    \/ \E c \in CrIds : CreateFails(c)

SpecCreate == InitCreate /\ [][NextCreate]_vars


(***************************************************************************)
(* Summaries of a link whose click events are already stored.  The events  *)
(* come from earlier redirects and from earlier versions of the service:   *)
(* a country may be empty (C16), and a timestamp, a deviceType or a source *)
(* may be missing.  The store returns them by ascending timestamp, null    *)
(* first.                                                                  *)
(***************************************************************************)
\* country, deviceType and source of the stored events
EventKinds ==
    { [country |-> <<"D", "E">>, deviceType |-> Mobile, source |-> Direct],
      [country |-> <<"F", "R">>, deviceType |-> Desktop, source |-> <<"q", "r">>],
      [country |-> <<>>, deviceType |-> None, source |-> None] }

\* a stored event of link 1; timestamp 0: no timestamp
StoredEvent(kind, t) ==
    [linkId |-> 1, shortCode |-> <<"a", "b">>, longUrl |-> DestinationUrls[1],
     deviceType |-> kind.deviceType, country |-> kind.country, source |-> kind.source,
     referrer |-> None, userAgent |-> None, timestamp |-> t, by |-> 0]

StoredEventLists ==
    UNION { { es \in [1..n -> {StoredEvent(k, t) : k \in EventKinds, t \in 0..MaxTime}] :
                \A i \in 1..(n - 1) : es[i].timestamp <= es[i + 1].timestamp }
            : n \in 0..MaxEvents }

\* from / to of the request body, up to one instant after the last event
Bounds == 0..(MaxTime + 1)

InitFilter ==
    /\ \E ls \in InitLinks({0}) :
          /\ Len(ls) = 1
          /\ links = [i \in DOMAIN ls |-> [ls[i] EXCEPT !.longUrl = DestinationUrls[i]]]
    /\ clickEvents \in StoredEventLists
    /\ req = [r \in ReqIds |-> IdleReq]
    /\ sum = [s \in SumIds |-> IdleSum]
    /\ cr = [c \in CrIds |-> IdleCr]

NextFilter ==
    \/ \E s \in SumIds, raw \in RawCodes, from \in Bounds, to \in Bounds :
          StartSummary(s, raw, from, to)
    \/ \E s \in SumIds : SummaryLookup(s)
    \/ \E s \in SumIds : SummaryEvents(s)
    \/ \E s \in SumIds : SummaryFails(s)

SpecFilter == InitFilter /\ [][NextFilter]_vars

(***************************************************************************)
(* The life of a link: created on an empty store, then redirected to,      *)
(* activated and deactivated, and summarized.                              *)
(***************************************************************************)
\* the code the creation requests of the model end up with, as typed by
\* later requests
LifecycleCodes == { Rep("a", DefaultLength), Rep("A", DefaultLength) }

InitLifecycle ==
    /\ links = <<>>
    /\ clickEvents = <<>>
    /\ req = [r \in ReqIds |-> IdleReq]
    /\ sum = [s \in SumIds |-> IdleSum]
    /\ cr = [c \in CrIds |-> IdleCr]

\* one creation request; on a store of at most one link the generator never
\* collides ten times
NextLifecycle ==
    \/ \E url \in UrlInputs, rawAlias \in AliasInputs : StartCreate(1, url, rawAlias)
    \/ \E answer \in GateAnswers : SafetyAnswer(1, answer)
    \/ AliasLookup(1)
    \/ \E code \in generateShortCode(cr[1].length) : GenerateAttempt(1, code)
    \/ CreateWrite(1)
    \/ CreateFails(1)
    \/ \E raw \in LifecycleCodes : StartRedirect(1, raw)
    \/ \E meta \in MetaInputs : Lookup1(1, meta)
    \/ \E meta \in MetaInputs : Lookup2(1, meta)
    \/ LookupFails(1)
    \/ \E fileRead \in BOOLEAN : ServeNotFound(1, fileRead)
    \/ HitUpdateDone(1)
    \/ HitUpdateFails(1)
    \/ ClickLogDone(1)
    \/ ClickLogFails(1)
    \/ \E p \in PatchInputs : Patch(p.id, p.uid, p.body, p.storeOk)
    \/ \E s \in SumIds, raw \in LifecycleCodes, w \in Windows : StartSummary(s, raw, w[1], w[2])
    \/ \E s \in SumIds : SummaryLookup(s)
    \/ \E s \in SumIds : SummaryEvents(s)
    \/ \E s \in SumIds : SummaryFails(s)

SpecLifecycle == InitLifecycle /\ [][NextLifecycle]_vars

(***************************************************************************)
(* Properties of the redirect handler.                                     *)
(***************************************************************************)
\* r's last lookup resolves in this step and the handler decides on it
Decides(r) ==
    /\ req[r].pc \in {"lookup1", "lookup2"}
    /\ req'[r].pc \in {"done", "notFoundPage"}

\* r is answered from serveNotFoundPage in this step
ServesNotFound(r) == req[r].pc = "notFoundPage" /\ req'[r].pc = "done"

CodeAsTyped(r) == Trim(req[r].rawCode)

CodeLowered(r) == ToLowerCase(Trim(req[r].rawCode))

OnlyLinkWithItsCode(i) ==
    \A j \in LinkIds : links[j].shortCode = links[i].shortCode => j = i

NoLinkHas(code) == \A j \in LinkIds : links[j].shortCode # code

C4_InactiveLooksMissing ==
    /\ \A r \in ReqIds :
          (req[r].pc = "done" /\ req[r].branch \in {"inactive-link", "not-found"})
          => req[r].resp \in {NotFoundHtml, NotFoundJson}
    /\ \A r1, r2 \in ReqIds :
          (/\ req[r1].pc = "done" /\ req[r1].branch = "inactive-link"
           /\ req[r2].pc = "done" /\ req[r2].branch = "not-found"
           /\ req[r1].fileRead = req[r2].fileRead)
          => req[r1].resp = req[r2].resp

\* both kinds of request have been answered, the page having been read alike
C4_Witness ==
    \E r1, r2 \in ReqIds :
        /\ req[r1].pc = "done" /\ req[r1].branch = "inactive-link"
        /\ req[r1].docId # 0 /\ ~links[req[r1].docId].isActive
        /\ req[r2].pc = "done" /\ req[r2].branch = "not-found"
        /\ req[r1].fileRead = req[r2].fileRead

\* the requests answered 302 with link i's document
Redirected(i) == {r \in ReqIds : req[r].resp.status = 302 /\ req[r].docId = i}

Settled(r) == req[r].hit # "pending" /\ req[r].click # "pending"

\* the click events stored for request r
EventsBy(r) == {k \in 1..Len(clickEvents) : clickEvents[k].by = r}

\* C5 as stated, once the side effects of the redirects to link i are over
\* (every link of this specification starts with hitCount 0): each 302 has
\* incremented hitCount exactly once and stored at most one click event.
C5_Original ==
    \A i \in LinkIds :
        (\A r \in Redirected(i) : Settled(r)) =>
            /\ links[i].hitCount = Cardinality(Redirected(i))
            /\ \A r \in Redirected(i) : Cardinality(EventsBy(r)) <= 1

\* the increments and the click events counted against the requests
SideEffectsCounted ==
    /\ \A i \in LinkIds :
          links[i].hitCount = Cardinality({r \in Redirected(i) : req[r].hit = "done"})
    /\ \A r \in ReqIds :
          /\ Cardinality(EventsBy(r)) <= 1
          /\ (req[r].click = "done") <=> (EventsBy(r) # {})
          /\ \A k \in EventsBy(r) : clickEvents[k].linkId = req[r].docId
          /\ req[r].resp.status # 302 => req[r].hit = "none" /\ req[r].click = "none"

\* C5 amended: each 302 is eventually followed by the settling of its update
\* and of its append; it causes at most one increment by 1 of that link's
\* hitCount (exactly one when the update succeeds, none when the store
\* rejects it) and at most one click event (exactly one when the append
\* succeeds); a request not answered 302 causes neither.
C5_AtMostOnce ==
    /\ []SideEffectsCounted
    /\ \A r \in ReqIds : (req[r].resp.status = 302) ~> Settled(r)

\* two redirects to the same link are settled: one update succeeded and one
\* was rejected
C5_Witness ==
    \E i \in LinkIds :
        /\ Cardinality(Redirected(i)) = 2
        /\ \A r \in Redirected(i) : Settled(r)
        /\ \E r1, r2 \in Redirected(i) : req[r1].hit = "done" /\ req[r2].hit # "done"
        /\ \E r \in Redirected(i) : EventsBy(r) # {}

\* C6: a store failure during the hit-count update or the click-event append
\* is caught: no rejected promise is left unhandled, and the response stays
\* the 302 already sent.
C6_FailuresSuppressed ==
    \A r \in ReqIds :
        /\ req[r].hit \in {"none", "pending", "done", "caught"}
        /\ req[r].click \in {"none", "pending", "done", "caught"}
        /\ (req[r].hit # "none" \/ req[r].click # "none") => req[r].resp.status = 302

PositionIn(x, s) == CHOOSE k \in 1..Len(s) : s[k] = x

\* C7: the step that sends the 302 is the step that starts the hit-count
\* update and the click-event append, the response first, and it completes
\* neither: both are still pending when the response is out.
C7_ResponseFirst ==
    [][\A r \in ReqIds : (req[r].resp.status # 302 /\ req'[r].resp.status = 302) =>
          /\ req[r].hit = "none" /\ req[r].click = "none"
          /\ req'[r].hit = "pending" /\ req'[r].click = "pending"
          /\ {"response-sent", "hit-update-started", "click-log-started"}
                \subseteq Range(req'[r].trace)
          /\ PositionIn("response-sent", req'[r].trace)
                < PositionIn("hit-update-started", req'[r].trace)
          /\ PositionIn("response-sent", req'[r].trace)
                < PositionIn("click-log-started", req'[r].trace)]_vars

\* a 302 is out while both side effects are pending
C7_Witness ==
    \E r \in ReqIds :
        req[r].resp.status = 302 /\ req[r].hit = "pending" /\ req[r].click = "pending"

\* C8: when the lookup finds an active link (and no query fails), the request
\* is answered 302 whatever its metadata.
C8_Always302 ==
    [][\A r \in ReqIds :
          (/\ Decides(r)
           /\ req'[r].error # "StoreError"
           /\ req'[r].docId # 0
           /\ links[req'[r].docId].isActive)
          => req'[r].resp.status = 302]_vars

\* C9: a request one of whose lookups the store rejected is answered 500, is not
\* sent to the not-found page and starts no side effect.
C9_LookupFailureIs500 ==
    \A r \in ReqIds : req[r].error = "StoreError" =>
        /\ req[r].pc = "done"
        /\ req[r].resp = Error500
        /\ req[r].hit = "none" /\ req[r].click = "none"

\* the second lookup of a request failed, and the first lookup of another
C9_Witness ==
    \E r1, r2 \in ReqIds :
        /\ req[r1].error = "StoreError" /\ Len(req[r1].lookups) = 2
        /\ req[r2].error = "StoreError" /\ Len(req[r2].lookups) = 1

(***************************************************************************)
(* Analytics summary (SpecAnalytics)                                       *)
(***************************************************************************)
Summarized(s) == sum[s].pc = "done" /\ sum[s].outcome = "ok"

\* no redirect has (yet) incremented the hitCount of link i
NeverIncremented(i) == \A r \in ReqIds : ~(req[r].hit = "done" /\ req[r].docId = i)

\* C10: a summary of a link that has no recorded click event and whose
\* stored hitCount is N > 0 returns totalClicks = N, whether or not a
\* window was given: with N the hitCount the summary read, and, as long as
\* no redirect has changed it, the hitCount in the store.
C10_LegacyHitCount ==
    \A s \in SumIds :
        /\ (Summarized(s) /\ sum[s].fetched = 0 /\ sum[s].linkData.hitCount > 0)
              => sum[s].stats.totalClicks = sum[s].linkData.hitCount
        /\ (/\ Summarized(s)
            /\ EventsOfLink(sum[s].linkId) = <<>>
            /\ NeverIncremented(sum[s].linkId)
            /\ links[sum[s].linkId].hitCount > 0)
              => sum[s].stats.totalClicks = links[sum[s].linkId].hitCount

\* a windowed summary of a legacy link with hitCount MaxLegacyHits and no
\* click event has been answered
C10_Witness ==
    \E s \in SumIds :
        /\ Summarized(s)
        /\ sum[s].from # 0
        /\ EventsOfLink(sum[s].linkId) = <<>>
        /\ links[sum[s].linkId].hitCount = MaxLegacyHits
        /\ sum[s].stats.totalClicks = MaxLegacyHits

(***************************************************************************)
(* Link creation (SpecCreate)                                              *)
(***************************************************************************)
\* creator c's generator returns in this step
GeneratorReturns(c) == cr[c].pc = "generate" /\ cr'[c].pc = "write"

\* C1: the code the generator returns has at least six characters, all of
\* them in [a-z0-9], and is the shortCode of no stored link at the moment
\* it is returned.
C1_GeneratedCodeUnused ==
    [][\A c \in CrIds :
          GeneratorReturns(c) =>
              /\ Len(cr'[c].code) >= DefaultLength
              /\ Range(cr'[c].code) \subseteq Range(chars)
              /\ NoLinkHas(cr'[c].code)]_vars

\* C2: no two stored links share a shortCode.
C2_ShortCodesDistinct ==
    \A i, j \in LinkIds : i # j => links[i].shortCode # links[j].shortCode

(***************************************************************************)
(* Analytics summary, windows (SpecAnalytics)                              *)
(***************************************************************************)
\* the events summary s fetched are the events the link has now
FetchedAll(s) == sum[s].fetched = Len(EventsOfLink(sum[s].linkId))

Windowed(s) == sum[s].from # 0 \/ sum[s].to # 0

\* C11: a summary of a link with click events, with a window that contains
\* none of their timestamps, returns totalClicks = 0, empty country, device
\* and source breakdowns, and firstClick = lastClick = null.
C11_EmptyWindowIsZero ==
    \A s \in SumIds :
        (/\ Summarized(s)
         /\ Windowed(s)
         /\ sum[s].fetched >= 1
         /\ FetchedAll(s)
         /\ FilterEvents(EventsOfLink(sum[s].linkId), sum[s].from, sum[s].to) = <<>>)
        => /\ sum[s].stats.totalClicks = 0
           /\ sum[s].stats.countries = <<>>
           /\ sum[s].stats.devices = <<>>
           /\ sum[s].stats.sources = <<>>
           /\ sum[s].stats.firstClick = 0
           /\ sum[s].stats.lastClick = 0

(***************************************************************************)
(* Redirect, then summary (SpecAnalytics)                                  *)
(***************************************************************************)
\* C12 as stated, for a link created with hitCount 0: a summary that started
\* after a redirect to the link had been answered 302 reports
\* totalClicks >= 1.
C12_Original ==
    \A s \in SumIds : \A r \in sum[s].after :
        (Summarized(s) /\ req[r].docId = sum[s].linkId) => sum[s].stats.totalClicks >= 1

\* the link query of summary s resolves in this step, finding a link
FindsLink(s) == sum[s].pc = "lookup" /\ sum'[s].pc = "events"

\* the event query of summary s resolves in this step
Answers(s) == sum[s].pc = "events" /\ sum'[s].pc = "done" /\ sum'[s].outcome = "ok"

\* C12 amended: a summary whose link query resolves after the hit-count
\* update of a redirect to the link was committed reads hitCount >= 1, and a
\* summary that read hitCount >= 1, or whose event query (without window)
\* resolves when a click event of the link is stored, reports
\* totalClicks >= 1.
C12_CommittedClicksCount ==
    [][\A s \in SumIds :
          /\ (/\ FindsLink(s)
              /\ \E r \in ReqIds : req[r].hit = "done" /\ req[r].docId = sum'[s].linkId)
                => sum'[s].linkData.hitCount >= 1
          /\ (/\ Answers(s)
              /\ \/ sum[s].linkData.hitCount >= 1
                 \/ ~Windowed(s) /\ EventsOfLink(sum[s].linkId) # <<>>)
                => sum'[s].stats.totalClicks >= 1]_vars

\* a summary started after the 302 read the link before the update was
\* committed and the events after the click event was stored
C12_Witness ==
    \E s \in SumIds : \E r \in sum[s].after :
        /\ Summarized(s)
        /\ req[r].docId = sum[s].linkId
        /\ sum[s].linkData.hitCount = 0
        /\ sum[s].fetched = 1
        /\ sum[s].stats.totalClicks = 1

(***************************************************************************)
(* Analytics summary, outcomes (SpecAnalytics)                             *)
(***************************************************************************)
\* C13: a summary request for a code that no link has is answered 404, and a
\* request during which the store failed is answered with another status.
C13_MissingLinkIs404 ==
    \A s \in SumIds :
        /\ (sum[s].pc = "done" /\ sum[s].outcome = "NotFoundError") => sum[s].status = 404
        /\ (sum[s].pc = "done" /\ sum[s].outcome = "StoreError") => sum[s].status # 404

(***************************************************************************)
(* Click classification (SpecClassify)                                     *)
(***************************************************************************)
HasAny(str, words) == \E w \in words : Contains(str, w)

TabletWords == { <<"t", "a", "b", "l", "e", "t">>, <<"i", "p", "a", "d">> }

MobileWords == { <<"m", "o", "b", "i">>, <<"a", "n", "d", "r", "o", "i", "d">>, <<"i", "p", "h", "o", "n", "e">> }

\* the rule of C14 for one stored click event
DeviceRule(e) ==
    IF e.userAgent = None THEN e.deviceType = Desktop
    ELSE LET ua == ToLowerCase(e.userAgent)
         IN  /\ HasAny(ua, TabletWords) => e.deviceType = Tablet
             /\ (~HasAny(ua, TabletWords) /\ HasAny(ua, MobileWords)) => e.deviceType = Mobile
             /\ (~HasAny(ua, TabletWords) /\ ~HasAny(ua, MobileWords)) => e.deviceType = Desktop
             /\ Contains(e.userAgent, <<"i", "P", "a", "d">>) => e.deviceType = Tablet

StoredEvents == {clickEvents[k] : k \in 1..Len(clickEvents)}

\* C14 as stated: the rule, and every user-agent containing 'Android' is
\* classified mobile.
C14_Original ==
    \A e \in StoredEvents :
        /\ DeviceRule(e)
        /\ (e.userAgent # None /\ Contains(e.userAgent, <<"A", "n", "d", "r", "o", "i", "d">>)) => e.deviceType = Mobile

\* C14 amended: tablet when the lowercased user-agent contains 'tablet' or
\* 'ipad'; otherwise mobile when it contains 'mobi', 'android' or 'iphone';
\* otherwise, and when the header is absent, desktop; so every user-agent
\* containing 'iPad' is tablet, and every user-agent containing 'Android'
\* is mobile unless it also contains 'tablet' or 'ipad' in any case.
C14_DeviceClassified ==
    \A e \in StoredEvents :
        /\ DeviceRule(e)
        /\ (/\ e.userAgent # None
            /\ Contains(e.userAgent, <<"A", "n", "d", "r", "o", "i", "d">>)
            /\ ~HasAny(ToLowerCase(e.userAgent), TabletWords)) => e.deviceType = Mobile

\* the click of an Android tablet has been stored as tablet
C14_Witness ==
    \E e \in StoredEvents :
        /\ e.userAgent # None
        /\ Contains(e.userAgent, <<"A", "n", "d", "r", "o", "i", "d">>)
        /\ Contains(ToLowerCase(e.userAgent), <<"t", "a", "b", "l", "e", "t">>)
        /\ e.deviceType = Tablet

\* C15: detectCountry on the Accept-Language header the handler read: the
\* first comma-separated entry split on '-'; two parts give the second
\* uppercased, one part gives it uppercased, no header gives "UNKNOWN";
\* "de-DE,de;q=0.9" gives "DE" and "fr" gives "FR".
C15_CountryClassified ==
    \A r \in ReqIds : req[r].branch = "success" =>
        LET al == req[r].acceptLanguage
            country == req[r].event.country
        IN  /\ al = None => country = Unknown
            /\ (al # None /\ al # <<>>) =>
                  LET parts == Split(Split(al, ",")[1], "-")
                  IN  /\ Len(parts) = 2 => country = ToUpperCase(parts[2])
                      /\ Len(parts) = 1 => country = ToUpperCase(parts[1])
            /\ al = <<"d", "e", "-", "D", "E", ",", "d", "e", ";", "q", "=", "0", ".", "9">> => country = <<"D", "E">>
            /\ al = <<"f", "r">> => country = <<"F", "R">>
            /\ \A e \in StoredEvents : e.by = r => e.country = country

\* the click of a request with Accept-Language "de-DE,de;q=0.9" has been
\* stored with country "DE"
C15_Witness ==
    \E r \in ReqIds : \E e \in StoredEvents :
        /\ e.by = r
        /\ req[r].acceptLanguage = <<"d", "e", "-", "D", "E", ",", "d", "e", ";", "q", "=", "0", ".", "9">>
        /\ e.country = <<"D", "E">>

\* C16: every stored click event has deviceType mobile, desktop or tablet,
\* country a 2-letter code or "UNKNOWN", and a non-empty source.
C16_EventFieldsInRange ==
    \A e \in StoredEvents :
        /\ e.deviceType \in {Mobile, Desktop, Tablet}
        /\ \/ e.country = Unknown
           \/ Len(e.country) = 2 /\ Range(e.country) \subseteq Range(UpperLetters)
        /\ e.source # None /\ e.source # <<>>

(***************************************************************************)
(* hitCount over the life of a link (SpecLifecycle)                        *)
(***************************************************************************)
\* C17: a link is created with hitCount 0, and in every step of creations,
\* redirects, activations, deactivations and summaries the hitCount of
\* every stored link is >= 0 and does not decrease.
C17_HitCountMonotone ==
    [][/\ Len(links') >= Len(links)
       /\ \A i \in 1..Len(links') :
             IF i \in LinkIds
             THEN /\ links[i].hitCount >= 0
                  /\ links'[i].hitCount >= links[i].hitCount
             ELSE links'[i].hitCount = 0]_vars

\* a created link has been redirected to, counted, deactivated and summarized
C17_Witness ==
    \E i \in LinkIds : \E s \in SumIds :
        /\ cr[1].status = 201
        /\ links[i].hitCount = 1
        /\ ~links[i].isActive
        /\ Summarized(s) /\ sum[s].linkId = i

(***************************************************************************)
(* Link creation: safety gate, alias, generator (SpecCreate)               *)
(***************************************************************************)
Flagged == "This URL has been flagged as malicious/unsafe and cannot be shortened."

\* the gate's answer for creator c arrives in this step
GateAnswered(c) == cr[c].pc = "safety" /\ cr'[c].pc # "safety"

\* C18: the gate reports unsafe only for an OK answer with a threat match; a
\* non-OK answer and a network error count as safe.  A creation request is
\* rejected by the gate exactly when it reports unsafe: the request ends
\* there with its 400, without generated code and without stored link, and
\* a request found safe goes on to the alias query or to the generator.
C18_GateFailsOpen ==
    [][\A c \in CrIds :
          /\ GateAnswered(c) =>
                /\ links' = links
                /\ IF cr'[c].gate = "ok-matches"
                   THEN /\ cr'[c].pc = "done" /\ cr'[c].status = 400
                        /\ cr'[c].message = Flagged
                        /\ cr'[c].code = None /\ cr'[c].tried = <<>>
                   ELSE /\ cr'[c].gate \in GateAnswers
                        /\ cr'[c].pc \in {"aliasLookup", "generate"}
          /\ cr[c].gate = "ok-matches" => cr'[c] = cr[c]
          /\ cr'[c].message = Flagged => cr'[c].gate = "ok-matches"]_vars

\* one request was rejected on a threat match, another was created although
\* the vetting service could not be asked
C18_Witness ==
    \E c1, c2 \in CrIds :
        /\ cr[c1].gate = "ok-matches" /\ cr[c1].status = 400
        /\ cr[c2].gate \in {"not-ok", "network-error"} /\ cr[c2].status = 201

\* the alias of creator c's request, trimmed and lowercased
LoweredAlias(c) == ToLowerCase(Trim(cr[c].rawAlias))

\* C19: when the alias query of a request resolves and a stored link has
\* the lowercased alias as shortCode, the request is answered 400 'alias
\* taken' and stores nothing; a request with an alias never runs the
\* generator, and what it stores is stored under the lowercased alias.
C19_TakenAliasRejected ==
    [][\A c \in CrIds : cr[c].rawAlias # None =>
          /\ (/\ cr[c].pc = "aliasLookup"
              /\ cr'[c].status # 500
              /\ cr'[c] # cr[c]
              /\ ~NoLinkHas(LoweredAlias(c)))
                => /\ cr'[c].pc = "done" /\ cr'[c].status = 400
                   /\ cr'[c].message = "Invalid URL or alias taken"
                   /\ links' = links
          /\ cr'[c].tried = <<>> /\ cr'[c].attempt = 0 /\ ~cr'[c].fallback
          /\ cr'[c].pc = "write" => cr'[c].code = LoweredAlias(c)]_vars

\* an alias typed in upper case was refused because its lowercase form is taken
C19_Witness ==
    \E c \in CrIds :
        /\ cr[c].rawAlias # None
        /\ cr[c].rawAlias # LoweredAlias(c)
        /\ cr[c].gate # "" /\ cr[c].gate # "ok-matches"
        /\ cr[c].status = 400
        /\ ~NoLinkHas(LoweredAlias(c))

\* C20: the generator makes at most 10 lookups and returns the first
\* candidate the store does not contain; the first 7 candidates have the
\* initial length, and the 8th, 9th and 10th are each one character longer
\* than the one before.
C20_LastThreeLonger ==
    \A c \in CrIds :
        /\ Len(cr[c].tried) <= maxAttempts
        /\ \A k \in 1..Len(cr[c].tried) :
              IF k <= maxAttempts - 3
              THEN cr[c].tried[k] = DefaultLength
              ELSE cr[c].tried[k] = cr[c].tried[k - 1] + 1
        /\ (cr[c].pc = "write" /\ cr[c].tried # <<>> /\ ~cr[c].fallback)
              => Len(cr[c].code) = cr[c].tried[Len(cr[c].tried)]

(***************************************************************************)
(* The generator's fallback (SpecCreate)                                   *)
(***************************************************************************)
\* creator c's generator takes the fallback in this step
TakesFallback(c) == cr[c].pc = "generate" /\ ~cr[c].fallback /\ cr'[c].fallback

\* C21 as stated: after 10 collisions the generator returns, without another
\* lookup, one code of the initial length + 2 (8 for the default 6).
C21_Original ==
    [][\A c \in CrIds : TakesFallback(c) =>
          /\ Len(cr[c].tried) = maxAttempts
          /\ cr'[c].tried = cr[c].tried
          /\ Len(cr'[c].code) = DefaultLength + 2]_vars

\* C21 amended: after 10 collisions the generator returns, without another
\* lookup and without touching the store, one code two characters longer
\* than the length the loop ended with, which is the initial length + 3:
\* 11 characters for the default 6.
C21_FallbackLength ==
    [][\A c \in CrIds : TakesFallback(c) =>
          /\ Len(cr[c].tried) = maxAttempts
          /\ cr'[c].tried = cr[c].tried
          /\ links' = links
          /\ cr'[c].pc = "write"
          /\ cr[c].length = DefaultLength + 3
          /\ Len(cr'[c].code) = cr[c].length + 2]_vars

\* a fallback code has been returned after ten lookups
C21_Witness ==
    \E c \in CrIds :
        /\ cr[c].fallback
        /\ Len(cr[c].tried) = maxAttempts
        /\ Len(cr[c].code) = DefaultLength + 5

(***************************************************************************)
(* The lookups of a redirect request (Spec)                                *)
(***************************************************************************)
\* the lookups request r has made so far, given its code
LookupsInOrder(r) ==
    LET q == req'[r].lookups
    IN  /\ Len(q) <= 2
        /\ Len(q) >= 1 => q[1] = CodeLowered(r)
        /\ Len(q) = 2 => q[2] = CodeAsTyped(r) /\ CodeAsTyped(r) # CodeLowered(r)
        /\ (CodeLowered(r) = <<>> \/ CodeAsTyped(r) = <<>>) =>
              /\ q = <<>>
              /\ req'[r].pc \in {"notFoundPage", "done"}
              /\ req'[r].pc = "done" => req'[r].resp.status = 404

\* C22: a redirect request makes at most two lookups, the first for the
\* trimmed lowercased code, the second for the code as typed and only when
\* the first found nothing and lowercasing changed the code; the first
\* lookup that finds a link decides; an empty code is answered not-found
\* without lookup.
C22_AtMostTwoLookups ==
    [][\A r \in ReqIds : req[r].pc # "idle" =>
          /\ LookupsInOrder(r)
          /\ (req[r].pc = "lookup1" /\ req'[r].pc = "lookup2") =>
                NoLinkHas(CodeLowered(r)) /\ CodeAsTyped(r) # CodeLowered(r)
          /\ (Decides(r) /\ req'[r].error # "StoreError") =>
                /\ req'[r].docId = FindByShortCode(req'[r].lookups[Len(req'[r].lookups)])
                /\ (req[r].pc = "lookup1" /\ req'[r].docId = 0) =>
                      CodeAsTyped(r) = CodeLowered(r)]_vars

\* one request was redirected by its second lookup and one, with an empty
\* code, was answered not-found without lookup
C22_Witness ==
    \E r1, r2 \in ReqIds :
        /\ Len(req[r1].lookups) = 2 /\ req[r1].resp.status = 302
        /\ req[r2].pc = "done" /\ req[r2].branch = "missing-code"
        /\ req[r2].lookups = <<>> /\ req[r2].resp.status = 404

(***************************************************************************)
(* What redirect and summary leave alone (SpecLifecycle)                   *)
(***************************************************************************)
\* the stored click events are kept as they are; new ones go to the end
EventsKept ==
    /\ Len(clickEvents') >= Len(clickEvents)
    /\ \A k \in 1..Len(clickEvents) : clickEvents'[k] = clickEvents[k]

\* C23: a step of a redirect request that is not answered 302 (empty code,
\* unknown code, inactive link, lookup error or exception) changes no link
\* and no click event and starts no side effect; a step of a summary changes
\* neither; and click events are only ever appended.
C23_NoEffectWithout302 ==
    [][/\ EventsKept
       /\ \A r \in ReqIds :
             req'[r].resp.status # 302 =>
                /\ req'[r].hit = "none" /\ req'[r].click = "none"
                /\ req'[r] # req[r] => links' = links /\ clickEvents' = clickEvents
       /\ sum' # sum => links' = links /\ clickEvents' = clickEvents]_vars

\* a request for a deactivated link was answered not-found after a summary
\* of the link, which has no hit and no click event
C23_Witness ==
    \E r \in ReqIds : \E s \in SumIds :
        /\ req[r].pc = "done" /\ req[r].branch = "inactive-link"
        /\ req[r].resp.status = 404
        /\ Summarized(s) /\ sum[s].linkId = req[r].docId
        /\ links[req[r].docId].hitCount = 0
        /\ clickEvents = <<>>

(***************************************************************************)
(* The window and the breakdowns of a summary (SpecFilter)                 *)
(***************************************************************************)
\* event e is inside the window of summary s
InWindow(s, e) ==
    /\ e.timestamp # 0
    /\ sum[s].from # 0 => sum[s].from <= e.timestamp
    /\ sum[s].to # 0 => e.timestamp <= sum[s].to

\* C24: with from or to supplied, a summary keeps exactly the events with a
\* timestamp t such that from <= t and t <= to, each bound applied only if
\* supplied, in their order; with neither it keeps every event, those
\* without timestamp too.
C24_WindowInclusive ==
    \A s \in SumIds : Summarized(s) =>
        LET all == EventsOfLink(sum[s].linkId)
        IN  IF Windowed(s)
            THEN sum[s].events = SelectSeq(all, LAMBDA e : InWindow(s, e))
            ELSE sum[s].events = all

\* a summary with from = to kept an event of that instant and dropped one
\* without timestamp; the store also holds a later event
C24_Witness ==
    \E s \in SumIds :
        /\ Summarized(s)
        /\ sum[s].from # 0 /\ sum[s].from = sum[s].to
        /\ sum[s].events # <<>>
        /\ \E k \in 1..Len(clickEvents) : clickEvents[k].timestamp = 0
        /\ \E k \in 1..Len(clickEvents) : clickEvents[k].timestamp > sum[s].to

\* the bucket of a value: "UNKNOWN" for a missing (or empty) one
BucketOf(v) == IF v = None \/ v = <<>> THEN Unknown ELSE v

RECURSIVE SumCounts(_)
SumCounts(b) == IF b = <<>> THEN 0 ELSE Head(b).count + SumCounts(Tail(b))

\* the first event of evs whose field has the bucket value v
FirstWith(evs, field, v) ==
    CHOOSE k \in 1..Len(evs) :
        /\ BucketOf(evs[k][field]) = v
        /\ \A j \in 1..(k - 1) : BucketOf(evs[j][field]) # v

\* b is the breakdown of the events evs by field
IsBreakdown(b, evs, field) ==
    /\ \A i, j \in 1..Len(b) : b[i].value = b[j].value => i = j
    /\ {b[i].value : i \in 1..Len(b)} = {BucketOf(evs[k][field]) : k \in 1..Len(evs)}
    /\ \A i \in 1..Len(b) :
          b[i].count = Cardinality({k \in 1..Len(evs) : BucketOf(evs[k][field]) = b[i].value})
    /\ SumCounts(b) = Len(evs)
    /\ \A i, j \in 1..Len(b) :
          i < j => FirstWith(evs, field, b[i].value) < FirstWith(evs, field, b[j].value)

\* C25: each of the country, device and source breakdowns has one bucket per
\* distinct value of the filtered events, a missing value under "UNKNOWN",
\* with the number of filtered events of that value as count; the counts
\* sum to the number of filtered events, and the buckets are in the order
\* of first occurrence.
C25_Breakdowns ==
    \A s \in SumIds : Summarized(s) =>
        /\ IsBreakdown(sum[s].stats.countries, sum[s].events, "country")
        /\ IsBreakdown(sum[s].stats.devices, sum[s].events, "deviceType")
        /\ IsBreakdown(sum[s].stats.sources, sum[s].events, "source")

\* a windowed summary of three events has two country buckets, the second
\* one, "UNKNOWN", counting two events
C25_Witness ==
    \E s \in SumIds :
        /\ Summarized(s) /\ Windowed(s)
        /\ Len(sum[s].events) = 3
        /\ Len(sum[s].stats.countries) = 2
        /\ sum[s].stats.countries[2] = [value |-> Unknown, count |-> 2]

(***************************************************************************)
(* Summary and redirect resolve alike (SpecAnalytics)                      *)
(***************************************************************************)
\* request r has its lookups behind it, none of them rejected
LookedUp(r) ==
    /\ req[r].pc \in {"done", "notFoundPage"}
    /\ req[r].branch # "missing-code"
    /\ req[r].error # "StoreError"

\* C26: a summary of a code finds the link a redirect request for the same
\* code finds, a legacy link stored with a mixed-case code included, and
\* reports NotFound only if the redirect lookup finds no link either.
C26_ResolvesLikeRedirect ==
    \A r \in ReqIds : \A s \in SumIds :
        (/\ LookedUp(r)
         /\ sum[s].pc = "done" /\ sum[s].outcome # "StoreError"
         /\ Trim(sum[s].shortId) = Trim(req[r].rawCode))
        => /\ req[r].docId # 0 => sum[s].outcome = "ok" /\ sum[s].linkId = req[r].docId
           /\ sum[s].outcome = "NotFoundError" => req[r].docId = 0

(***************************************************************************)
(* Concurrent increments (Spec)                                            *)
(***************************************************************************)
\* the requests whose hit-count update on link i has been applied
Applied(i) == {r \in Redirected(i) : req[r].hit = "done"}

AppliedNext(i) == {r \in ReqIds : req'[r].resp.status = 302 /\ req'[r].docId = i
                                  /\ req'[r].hit = "done"}

\* C27: in every step, whatever the interleaving of the requests, the
\* hitCount of a link grows by the number of hit-count updates of redirects
\* to it that complete in the step: N completed updates have raised it by
\* exactly N, none is lost and none is applied twice.
C27_IncrementsAtomic ==
    [][\A i \in LinkIds :
          links'[i].hitCount - links[i].hitCount
              = Cardinality(AppliedNext(i)) - Cardinality(Applied(i))]_vars

\* two requests were redirected to the same link before either update was
\* applied, and both updates are applied
C27_Witness ==
    \E i \in LinkIds :
        /\ Cardinality(Redirected(i)) = MaxRequests
        /\ Applied(i) = Redirected(i)
        /\ links[i].hitCount = MaxRequests

(***************************************************************************)
(* Successive summaries (SpecSuccessive)                                   *)
(***************************************************************************)
\* C28: a summary without a window never reports fewer totalClicks than the
\* previous summary without a window of the same link did, whatever
\* redirects, hit-count updates and click-event appends happened in between.
C28_TotalClicksNeverDecreases ==
    \A s \in SumIds :
        (/\ Summarized(s) /\ ~Windowed(s)
         /\ sum[s].previous.urlId = sum[s].linkId)
        => sum[s].stats.totalClicks >= sum[s].previous.totalClicks

(***************************************************************************)
(* Deactivation and redirects in flight (Spec)                             *)
(***************************************************************************)
\* request r is waiting for a link query
Querying(r) == req[r].pc \in {"lookup1", "lookup2"}

\* C29: a redirect request whose link query resolves to a link while the
\* link is deactivated (every request that starts after the PATCH was
\* answered and before the link is activated again) goes to the not-found
\* page and dispatches no hit-count update and no click event; a request
\* answered not-found never causes either; and a hit-count update or a click
\* event on a deactivated link comes from a request that had its 302 before.
C29_DeactivationStopsRedirects ==
    [][/\ \A r \in ReqIds :
             (/\ Querying(r)
              /\ req'[r].docId # 0
              /\ ~links[req'[r].docId].isActive)
             => /\ req'[r].pc = "notFoundPage" /\ req'[r].branch = "inactive-link"
                /\ req'[r].resp = NoResp
                /\ req'[r].hit = "none" /\ req'[r].click = "none"
                /\ links' = links /\ clickEvents' = clickEvents
       /\ \A r \in ReqIds :
             req'[r].branch = "inactive-link"
             => /\ req'[r].resp \in {NoResp, NotFoundHtml, NotFoundJson}
                /\ req'[r].hit = "none" /\ req'[r].click = "none"
       /\ \A i \in LinkIds :
             (~links[i].isActive /\ links'[i].hitCount # links[i].hitCount)
             => \E r \in Redirected(i) : req[r].hit = "pending" /\ req'[r].hit = "done"
       /\ \A k \in 1..Len(clickEvents') :
             (k > Len(clickEvents) /\ ~links[clickEvents'[k].linkId].isActive)
             => \E r \in Redirected(clickEvents'[k].linkId) :
                   req[r].click = "pending" /\ req'[r].click = "done"]_vars

\* the first request was redirected to a link and counted; the link was
\* deactivated, and the second request, for the same link, got the not-found
\* page without any side effect
C29_Witness ==
    \E i \in LinkIds :
        /\ ~links[i].isActive
        /\ req[1].docId = i /\ req[1].resp.status = 302 /\ req[1].hit = "done"
        /\ req[2].docId = i /\ req[2].pc = "done" /\ req[2].branch = "inactive-link"
        /\ req[2].resp.status = 404
        /\ req[2].hit = "none" /\ req[2].click = "none"
        /\ links[i].hitCount = 1

====
